---- MODULE Spec2Model ----
(***************************************************************************)
(* Model of main.py: the YouTube latest-video checker that mails a notice  *)
(* for every channel of data.json whose latest video id differs from the   *)
(* stored one, and then rewrites data.json.                                *)
(*                                                                         *)
(* The program state is the file data.json, the module-level SMTP session  *)
(* gmail_server, the snapshot jsonData loaded by the main block, and the   *)
(* locals of the main loop and of update_json_data.  The environment is    *)
(* the latest upload of every channel, the faults of the YouTube API, of   *)
(* the SMTP transport, of the file system and of standard output, and a    *)
(* crash of the process.                                                   *)
(*                                                                         *)
(* Every print of the script writes to standard output, which may refuse   *)
(* the line; a print outside every try, or in an except handler, then ends *)
(* the process, as does every other statement outside a try that raises.   *)
(*                                                                         *)
(* Spec is the program over any number of runs.  LiveSpec is one run that  *)
(* nothing kills, under fairness of its own steps.  UpdateSpec is one call *)
(* of update_json_data on any file, RoundTripSpec is json.load followed by *)
(* json.dump of what it returned.                                          *)
(***************************************************************************)
EXTENDS Integers, Sequences, FiniteSets, TLC

\* ------------------------------------------------------------------ bounds
\* Number of channels (keys) of data.json.
NumChannels == 2

Channels == 1..NumChannels

\* The calls made for one channel in one run are counted up to MaxCalls.
MaxCalls == 2

\* The video ids the YouTube API can return.  They are opaque non-empty strings.
VideoIds == {"vid1", "vid2"}

\* ------------------------------------------------------- values of the code
\* Python's None, as returned (three times) by fetch_latest_video on failure.
None == "None"

\* The default of channel_data.get("latestVideoId", ""): the empty string.
EmptyId == ""

\* A channel entry of data.json is a JSON object; the only key the program
\* reads or writes is "latestVideoId".  An entry is a function whose domain
\* is {} (the key is absent) or {"latestVideoId"}.
NoField == [k \in {} |-> EmptyId]

Entry(v) == [k \in {"latestVideoId"} |-> v]

\* A value of data.json that is not a JSON object (a string, a number, a
\* list, null) where a channel entry is expected: it has no .get and no item
\* assignment by key.
NotAnObject == [k \in {"<scalar>"} |-> EmptyId]

IsObject(channel_data) == "<scalar>" \notin DOMAIN channel_data

\* The values data.json can hold for a channel.
Entries ==
    {NoField, NotAnObject} \cup {Entry(v) : v \in VideoIds \cup {EmptyId}}

\* channel_data.get("latestVideoId", "")
GetLatestVideoId(channel_data) ==
    IF "latestVideoId" \in DOMAIN channel_data
    THEN channel_data["latestVideoId"]
    ELSE EmptyId

\* (mutant) only the empty string is falsy: None passes the test.
Truthy_NotEmpty(v) == v # EmptyId

\* Python truthiness of a str-or-None: `if video_id:`
Truthy(v) == v # None /\ v # EmptyId

\* ----------------------------------------------------------- data.json
\* The text of a JSON object is the sequence of its members <<key, value>> in
\* the order of the file.  Channels are numbered in the order of their keys in
\* data.json, which is the order a dict keeps and json.dump writes.
NoData == << >>

\* json.dump(obj, file): one member per key of the dict, in the dict's order.
json_dump(obj) ==
    LET keys == DOMAIN obj
        Nth(i) == CHOOSE k \in keys : Cardinality({j \in keys : j < k}) = i - 1
    IN [i \in 1..Cardinality(keys) |-> <<Nth(i), obj[Nth(i)]>>]

\* json.load(file): the dict of the members; of two members with one key the
\* later one wins.
json_load(text) ==
    LET Last(k) == CHOOSE i \in DOMAIN text :
                      /\ text[i][1] = k
                      /\ \A j \in DOMAIN text : text[j][1] = k => j <= i
    IN [k \in {text[i][1] : i \in DOMAIN text} |-> text[Last(k)][2]]

\* The durable file: kind "ok" holds the text of a JSON object, here the one
\* json.dump writes for `data`; kind "empty" is the file right after
\* open(.., "w") truncated it; kind "partial" is a file some bytes of json.dump
\* reached.  json.load raises on the last two.
FileOk(data) == [kind |-> "ok", data |-> json_dump(data)]

FileEmpty == [kind |-> "empty", data |-> NoData]

FilePartial == [kind |-> "partial", data |-> NoData]

Parseable(f) == f.kind = "ok"

\* What a write that did not complete leaves of a file open(.., "w") truncated.
TornFiles == {FileEmpty, FilePartial}

\* --------------------------------------------------- fetch_latest_video
\* The outcome of the two API calls for one channel.
FetchKinds == {"ok", "notfound", "noitems", "transient", "unauthorized"}

Response(kind, vid) == [kind |-> kind, videoId |-> vid]

\* What the API can answer when the channel's latest upload is `vid`.
Responses(vid) ==
    {Response("ok", vid)} \cup
    {Response(k, None) : k \in FetchKinds \ {"ok"}}

\* print(..) raises when standard output does not take the line: the text
\* cannot be encoded for it (a title with an emoji on a cp932 stdout, a lone
\* surrogate, the Japanese text on an ascii stdout) or the write fails.  A
\* print that raises inside a try is caught and the handler prints again; a
\* print that raises in a handler or outside every try is not caught.
\* The result of a call that raised to its caller instead of returning.
Raised == "<raised>"

\* (mutant) a failed fetch returns a placeholder id.
fetch_latest_video_Placeholder(response, printed) ==
    IF response.kind = "ok" THEN response.videoId ELSE "vid1"

\* fetch_latest_video: the video id of the latest item, or None when the channel
\* is unknown, has no items, or any exception was raised (all are caught).
\* Every failure is reported by a print; `printed` is FALSE when the last
\* print of the call raises, which the function does not catch.
fetch_latest_video(response, printed) ==
    IF response.kind = "ok" THEN response.videoId
    ELSE IF printed THEN None
    ELSE Raised

\* (mutant) the comparison with the stored id is left out.
IsNewVideo_Always(vid, stored) == Truthy(vid)

\* The two tests of the main loop: the fetch succeeded and the id is not the
\* stored one, so a mail is due.
IsNewVideo(vid, stored) == Truthy(vid) /\ vid # stored

\* ------------------------------------------------------------ post_gmail
\* State of the one module-level smtplib.SMTP object:
\*   "connected"  as the constructor leaves it (plain text, EHLO not sent)
\*   "tls"        after starttls()
\*   "auth"       after login()
\*   "closed"     after quit(), or after the connection was lost
SessionStates == {"connected", "tls", "auth", "closed"}

\* What the server and the transport do during one post_gmail call.
\*   "none"              the server offers STARTTLS on the session as it is,
\*                       accepts it and accepts everything after it
\*   "message"           MIMEText cannot encode the body (the title or the url
\*                       holds a lone surrogate): raised before the try and
\*                       before the session is touched
\*   "starttls_refused"  the server does not offer STARTTLS on the session as
\*                       it is (inside TLS a server that follows RFC 3207
\*                       never does: starttls() raises before anything is
\*                       transmitted), or answers it with an error reply
\*   "login_auth"        the server rejects the credentials (login raises
\*                       SMTPAuthenticationError; the connection stays open)
\*   "login_failed"      login raises another exception and the connection
\*                       stays open: the server offers no AUTH extension, or
\*                       the credentials cannot be encoded (the placeholders
\*                       the script ships with are not ASCII)
\*   "sendmail_refused"  the server refuses the sender, the recipient or the data
\*   "disconnect"        the connection is lost before the mail is accepted
\*   "quit_disconnect"   the connection is lost after the mail was accepted
SendFaults ==
    {"none", "message", "starttls_refused", "login_auth", "login_failed",
     "sendmail_refused", "disconnect", "quit_disconnect"}

\* The faults that can show in a call that starts in session state `server`.
\* On a closed session starttls() raises before anything is transmitted, so
\* the server and the transport play no part.  On a session that is open,
\* fresh or used, starttls() goes by what the server offered in its last EHLO
\* answer: a server that offers STARTTLS again inside TLS is sent the command,
\* and everything after it can happen as on a fresh session.
FaultsOn(server) ==
    IF server = "closed" THEN {"none", "message"} ELSE SendFaults

\* raised: the call raised to its caller instead of returning.
SendResult(server, delivered, error, raised) ==
    [server |-> server, delivered |-> delivered, error |-> error,
     raised |-> raised]

\* post_gmail on session state `server` under fault `fault`: the message is
\* built outside the try; then starttls, login, sendmail, quit in turn on the
\* SAME module-level session, every exception of which is caught and printed.
\* error is "none", "auth" (SMTPAuthenticationError of login), "transport"
\* (any other exception of the session) or "encoding" (the message).
\* `printed` is FALSE when standard output does not take the report: the
\* print of the handler raises (that of the success is caught and reported by
\* the handler), and the call raises after what it did to the session.
post_gmail(server, fault, printed) ==
    IF fault = "message"
    THEN SendResult(server, FALSE, "encoding", TRUE)
    ELSE IF server = "closed"
    THEN \* starttls() on a closed session raises
         SendResult(server, FALSE, "transport", ~printed)
    ELSE CASE fault = "starttls_refused" ->
                \* the session stays as it was
                SendResult(server, FALSE, "transport", ~printed)
           [] fault = "login_auth"       -> SendResult("tls", FALSE, "auth", ~printed)
           [] fault = "login_failed"     ->
                SendResult("tls", FALSE, "transport", ~printed)
           [] fault = "sendmail_refused" ->
                SendResult("auth", FALSE, "transport", ~printed)
           [] fault = "disconnect"       ->
                SendResult("closed", FALSE, "transport", ~printed)
           [] fault = "quit_disconnect"  ->
                SendResult("closed", TRUE, "transport", ~printed)
           [] OTHER                      -> SendResult("closed", TRUE, "none", ~printed)

\* ------------------------------------------------------ update_json_data
\* `channel_id in json_data`
HasChannel(data, channel_id) == channel_id \in DOMAIN data

\* (mutant) the function hands its outcome to the caller.
UpdateReturns_Outcome(outcome) == outcome

\* update_json_data has no return statement: the caller gets None whatever
\* happened ("ok", or the kind of the failure), and the outcome is only printed.
UpdateReturns(outcome) == None

\* (mutant) the assignment to the in-memory copy is lost.
SetLatestVideoId_Lost(data, channel_id, new_video_id) == data

\* json_data[channel_id]["latestVideoId"] = new_video_id
SetLatestVideoId(data, channel_id, new_video_id) ==
    [data EXCEPT ![channel_id] =
        [k \in (DOMAIN @) \cup {"latestVideoId"} |->
            IF k = "latestVideoId" THEN new_video_id ELSE @[k]]]


\* --------------------------------------------------------------- the state
VARIABLES
    file,             \* data.json on disk
    latest,           \* environment: the latest upload of every channel
    pc,               \* position of the process
    gmail_server,     \* state of the module-level SMTP session
    jsonData,         \* the snapshot the main block loaded
    idx,              \* position of the main loop in jsonData.items()
    stored_video_id,  \* main loop local
    video_id,         \* main loop local
    json_data,        \* update_json_data local
    cur,              \* history: the channel being (or last) processed, 0 = none
    resp,             \* history: the API response of that channel's fetch
    sent,             \* history: the post_gmail call of that channel
    upd,              \* history: the update_json_data call of that channel
    failed,           \* history: an earlier channel of this run failed non-fatally
    committed,        \* history: the registry as of the last completed write
    run,              \* history: how this run went so far
    calls,            \* history: the calls this run made, per kind and channel
    exception,        \* history: what raised the exception that ended the run
    prev              \* history: how the previous run went

vars ==
    <<file, latest, pc, gmail_server, jsonData, idx, stored_video_id, video_id,
      json_data, cur, resp, sent, upd, failed, committed, run, calls,
      exception, prev>>

\* What raised the uncaught exception of a run that aborted: the constructor
\* of the SMTP session ("connect"), the open or the json.load of the main
\* block ("load"), channel_data.get ("get"), a print ("print") or the
\* construction of the mail ("message"); "-" when nothing did.
Exceptions == {"-", "connect", "load", "get", "print", "message"}

\* Positions.  "idle": no process yet.  "loop": at the head of the for loop.
\* "send": about to call post_gmail.  "upd_read", "upd_open", "upd_dump": in
\* update_json_data, before its read, its open(.., "w") and its json.dump.
\* "end": at the last statement of the loop body (the separator line).
\* "done": the script ended.  "aborted": an uncaught exception ended it.
\* "crashed": the process was killed.
RunningStates == {"loop", "send", "upd_read", "upd_open", "upd_dump", "end"}

EndStates == {"idle", "done", "aborted", "crashed"}

\* jsonData.items() iterates the keys in file order: channel 1, 2, ...
ChannelAt(i) == i

NoResp == Response("-", None)

NoSend == [fault |-> "-", error |-> "-", delivered |-> FALSE]

\* How a run went, as the next run's premise.  "clean": every channel fetched so
\* far was fetched successfully, every update attempted was persisted, and no
\* channel got a new upload since.  "persisted": the same without the condition
\* on the fetches.  "none": neither.
FetchFailedIn(r) == IF r = "clean" THEN "persisted" ELSE r

Registries == [Channels -> Entries]

\* The calls of a run: fetch_latest_video, post_gmail and update_json_data, per
\* channel.
NoCalls ==
    [fetch |-> [c \in Channels |-> 0],
     send |-> [c \in Channels |-> 0],
     update |-> [c \in Channels |-> 0]]

\* One more call of `kind` for `channel_id`.
Called(kind, channel_id) ==
    [calls EXCEPT ![kind][channel_id] = IF @ < MaxCalls THEN @ + 1 ELSE @]

Init ==
    /\ \E data \in Registries :
          /\ file = FileOk(data)
          /\ committed = data
    /\ latest \in [Channels -> VideoIds]
    /\ pc = "idle"
    /\ gmail_server = "closed"
    /\ jsonData = NoData
    /\ idx = 0
    /\ stored_video_id = EmptyId
    /\ video_id = None
    /\ json_data = NoData
    /\ cur = 0
    /\ resp = NoResp
    /\ sent = NoSend
    /\ upd = "-"
    /\ failed = FALSE
    /\ run = "none"
    /\ calls = NoCalls
    /\ exception = "-"
    /\ prev = "none"

\* How a run that ends now is remembered by the next one: a run that did not
\* complete is no premise.
Remembered == IF pc = "done" THEN run ELSE "none"

\* The failures of the channel in hand that the loop survives by design: a fetch
\* that returned None for a reason other than the credentials, a mail that
\* failed for a reason other than the credentials, an update that failed.
NonFatalFailure ==
    \/ resp.kind \in {"notfound", "noitems", "transient"}
    \/ sent.error = "transport"
    \/ upd \in {"read_failed", "parse_failed", "notfound", "assign_failed",
                "open_failed", "write_failed"}

\* An uncaught exception raised by `what` ends the process.  A run that ended
\* this way is no premise for the next one: what the model kept of this run
\* and of the one before as a premise is dropped.
Abort(what) ==
    /\ pc' = "aborted"
    /\ exception' = what
    /\ run' = "none"
    /\ prev' = "none"
    /\ failed' = FALSE

\* A process starts.  The module-level code runs first: smtplib.SMTP(...)
\* connects (smtp_up is FALSE when it cannot), then the main block opens
\* data.json (readable is FALSE when the file system refuses: the file is
\* missing or may not be read) and parses it.  None of these is inside a try:
\* a failure ends the process before the loop.
StartRun(smtp_up, readable) ==
    /\ pc \in EndStates
    /\ calls' = NoCalls
    /\ cur' = 0 /\ resp' = NoResp /\ sent' = NoSend /\ upd' = "-"
    /\ stored_video_id' = EmptyId /\ video_id' = None /\ json_data' = NoData
    /\ idx' = 1
    /\ IF ~smtp_up
       THEN /\ gmail_server' = "closed"
            /\ jsonData' = NoData
            /\ Abort("connect")
       ELSE /\ gmail_server' = "connected"
            /\ IF readable /\ Parseable(file)
               THEN /\ jsonData' = json_load(file.data)
                    /\ pc' = "loop"
                    /\ exception' = "-"
                    /\ prev' = Remembered
                    /\ run' = "clean"
                    /\ failed' = FALSE
               ELSE /\ jsonData' = NoData
                    /\ Abort("load")
    /\ UNCHANGED <<file, latest, committed>>

\* (mutant) an unchanged id is written to data.json again.
AfterFetch_RewriteOnSkip(vid, stored, printed) ==
    IF ~printed THEN "aborted"
    ELSE IF ~Truthy(vid) THEN "end"
    ELSE IF vid # stored THEN "send" ELSE "upd_read"

\* Where the main loop goes after the fetch of one channel.  Each branch
\* prints first (the title and the two ids of a new video, or that there is
\* none, or that the fetch failed), outside every try: `printed` is FALSE when
\* one of these prints raises, which ends the process.
AfterFetch(vid, stored, printed) ==
    IF ~printed THEN "aborted"
    ELSE IF IsNewVideo(vid, stored) THEN "send" ELSE "end"

\* The for loop takes the next item and channel_data.get raises because the
\* entry is not an object: the exception is not caught and ends the process.
GetRaises ==
    /\ pc = "loop"
    /\ idx <= NumChannels
    /\ ~IsObject(jsonData[ChannelAt(idx)])
    /\ Abort("get")
    /\ cur' = ChannelAt(idx)
    /\ UNCHANGED <<file, latest, gmail_server, jsonData, idx, stored_video_id,
                   video_id, json_data, resp, sent, upd, committed, calls>>

\* Where the first print that raises is, in one iteration up to the call of
\* post_gmail:
\*   "heading"  the print of the channel before the fetch
\*   "fetch"    the report of a failure in fetch_latest_video
\*   "branch"   the prints of the branch taken after the fetch
\*   "nowhere"  standard output takes every line
PrintRaises == {"nowhere", "heading", "fetch", "branch"}

\* One iteration of the for loop up to the comparison: read the stored id from
\* the snapshot, print the channel, fetch, compare, print what was found.
Fetch(response, raises_at) ==
    /\ pc = "loop"
    /\ idx <= NumChannels
    /\ IsObject(jsonData[ChannelAt(idx)])
    /\ LET channel_id == ChannelAt(idx)
           stored == GetLatestVideoId(jsonData[channel_id])
           vid == fetch_latest_video(response, raises_at # "fetch")
       IN /\ response \in Responses(latest[channel_id])
          /\ raises_at = "fetch" => response.kind # "ok"
          /\ stored_video_id' = stored
          /\ cur' = channel_id
          /\ sent' = NoSend
          /\ upd' = "-"
          /\ IF raises_at = "heading"
             THEN /\ Abort("print")
                  /\ UNCHANGED <<video_id, resp, calls>>
             ELSE /\ resp' = response
                  /\ calls' = Called("fetch", channel_id)
                  /\ IF vid = Raised
                     THEN /\ Abort("print")
                          /\ UNCHANGED video_id
                     ELSE /\ video_id' = vid
                          /\ LET next == AfterFetch(vid, stored,
                                                    raises_at # "branch")
                             IN IF next = "aborted"
                                THEN Abort(IF raises_at = "nowhere" THEN "-"
                                           ELSE "print")
                                ELSE /\ pc' = next
                                     /\ run' = IF response.kind = "ok" THEN run
                                               ELSE FetchFailedIn(run)
                                     /\ UNCHANGED <<exception, failed, prev>>
    /\ UNCHANGED <<file, latest, gmail_server, jsonData, idx, json_data,
                   committed>>

\* The last statement of the loop body prints the separator; the loop then
\* takes the next channel and the locals of this one are dead.  `printed` is
\* FALSE when the print raises (the write to standard output fails), which
\* ends the process.
EndIteration(printed) ==
    /\ pc = "end"
    /\ IF printed
       THEN /\ pc' = "loop"
            /\ idx' = idx + 1
            /\ cur' = 0 /\ resp' = NoResp /\ sent' = NoSend /\ upd' = "-"
            /\ stored_video_id' = EmptyId /\ video_id' = None
            /\ json_data' = NoData
            /\ failed' = (failed \/ NonFatalFailure)
            /\ UNCHANGED <<exception, run, prev>>
       ELSE /\ Abort("print")
            /\ UNCHANGED <<idx, cur, resp, sent, upd, stored_video_id, video_id,
                           json_data>>
    /\ UNCHANGED <<file, latest, gmail_server, jsonData, committed, calls>>

\* The for loop is exhausted: the script ends.
Finish ==
    /\ pc = "loop"
    /\ idx > NumChannels
    /\ pc' = "done"
    /\ UNCHANGED <<file, latest, gmail_server, jsonData, idx, stored_video_id,
                   video_id, json_data, cur, resp, sent, upd, failed, committed,
                   run, calls, exception, prev>>

\* Where the main loop goes after post_gmail returned: post_gmail returns
\* nothing, and update_json_data is the next statement.
AfterSend(result) == "upd_read"

\* post_gmail(title, url); what it raises is not caught and ends the process.
Send(fault, printed) ==
    /\ pc = "send"
    /\ fault \in FaultsOn(gmail_server)
    /\ LET result == post_gmail(gmail_server, fault, printed)
       IN /\ gmail_server' = result.server
          /\ sent' = [fault |-> fault, error |-> result.error,
                      delivered |-> result.delivered]
          /\ IF result.raised
             THEN Abort(IF fault = "message" THEN "message" ELSE "print")
             ELSE /\ pc' = AfterSend(result)
                  /\ UNCHANGED <<exception, failed, run, prev>>
    /\ calls' = Called("send", cur)
    /\ UNCHANGED <<file, latest, jsonData, idx, stored_video_id, video_id,
                   json_data, cur, resp, upd, committed>>


\* update_json_data ends by a print of its outcome: of the update or of the
\* missing key inside the try, of the exception in the handler.  It then
\* returns (it returns nothing) to the end of the loop body.  `printed` is
\* FALSE when standard output does not take the report: the print of the
\* handler raises and ends the process.
\* `premise` is what the run is as a premise after the call.
Return(printed, premise) ==
    /\ UNCHANGED idx
    /\ IF printed
       THEN /\ pc' = "end"
            /\ run' = premise
            /\ UNCHANGED <<exception, failed, prev>>
       ELSE Abort("print")

\* update_json_data did not persist the new id: it printed and returned.
UpdateFailed(how, printed) ==
    /\ upd' = how
    /\ Return(printed, "none")

\* update_json_data, first part: open(.., "r"), json.load, the membership test
\* and the assignment to the in-memory copy.  `readable` is FALSE when the
\* file system refuses the read.
UpdRead(readable, printed) ==
    /\ pc = "upd_read"
    /\ calls' = Called("update", cur)
    /\ IF ~readable
       THEN /\ UpdateFailed("read_failed", printed)
            /\ UNCHANGED json_data
       ELSE IF ~Parseable(file)
       THEN /\ UpdateFailed("parse_failed", printed)
            /\ UNCHANGED json_data
       ELSE LET loaded == json_load(file.data)
            IN IF ~HasChannel(loaded, cur)
               THEN /\ UpdateFailed("notfound", printed)
                    /\ json_data' = loaded
               ELSE IF ~IsObject(loaded[cur])
               THEN \* the item assignment raises TypeError
                    /\ UpdateFailed("assign_failed", printed)
                    /\ json_data' = loaded
               ELSE /\ json_data' = SetLatestVideoId(loaded, cur, video_id)
                    /\ pc' = "upd_open"
                    /\ UNCHANGED <<idx, upd, run, exception, failed, prev>>
    /\ UNCHANGED <<file, latest, gmail_server, jsonData, stored_video_id,
                   video_id, cur, resp, sent, committed>>

\* update_json_data, second part: open(.., "w") truncates data.json.
\* `writable` is FALSE when the file system refuses to open it for writing.
UpdOpen(writable, printed) ==
    /\ pc = "upd_open"
    /\ IF writable
       THEN /\ file' = FileEmpty
            /\ pc' = "upd_dump"
            /\ UNCHANGED <<idx, upd, run, exception, failed, prev>>
       ELSE /\ UpdateFailed("open_failed", printed)
            /\ UNCHANGED file
    /\ UNCHANGED <<latest, gmail_server, jsonData, stored_video_id, video_id,
                   json_data, cur, resp, sent, committed, calls>>

\* update_json_data, third part: json.dump, the close of the file and the
\* print of the update.  `written` is the file the write leaves: the new
\* content, or a torn file when json.dump raises (the file system fails the
\* write, or a string of the dict cannot be encoded in utf-8).
UpdDump(written, printed) ==
    /\ pc = "upd_dump"
    /\ written \in {FileOk(json_data)} \cup TornFiles
    /\ file' = written
    /\ IF Parseable(written)
       THEN /\ upd' = "ok"
            /\ committed' = json_data
            /\ Return(printed, run)
       ELSE /\ UpdateFailed("write_failed", printed)
            /\ UNCHANGED committed
    /\ UNCHANGED <<latest, gmail_server, jsonData, stored_video_id, video_id,
                   json_data, cur, resp, sent, calls>>

\* The process is killed: its session and its locals are gone.  A kill
\* between open(.., "w") and the end of the write leaves data.json torn.  A
\* run that was killed is no premise for the next one.
Crash(left) ==
    /\ pc \in RunningStates
    /\ left \in (IF pc = "upd_dump" THEN TornFiles ELSE {file})
    /\ file' = left
    /\ pc' = "crashed"
    /\ gmail_server' = "closed"
    /\ resp' = NoResp /\ sent' = NoSend /\ upd' = "-"
    /\ stored_video_id' = EmptyId /\ video_id' = None /\ json_data' = NoData
    /\ run' = "none" /\ prev' = "none" /\ failed' = FALSE
    /\ UNCHANGED <<latest, jsonData, idx, cur, committed, calls, exception>>

\* Environment: a channel gets another latest upload.  A run sees the latest
\* upload of a channel only in its one fetch of that channel, so an upload
\* during a run acts as one before the run (the channel is not yet fetched) or
\* after it (already fetched): uploads are placed between the runs.  The run
\* that ended is then no premise for the next one: an item changed.  Nothing
\* of the process that ended is left but data.json, so what the model kept of
\* it for inspection is dropped here.
Publish(channel_id, vid) ==
    /\ pc \in EndStates
    /\ vid # latest[channel_id]
    /\ latest' = [latest EXCEPT ![channel_id] = vid]
    /\ run' = "none"
    /\ prev' = "none"
    /\ pc' = "idle"
    /\ gmail_server' = "closed"
    /\ jsonData' = NoData
    /\ idx' = 0
    /\ cur' = 0
    /\ resp' = NoResp /\ sent' = NoSend /\ upd' = "-"
    /\ stored_video_id' = EmptyId /\ video_id' = None /\ json_data' = NoData
    /\ failed' = FALSE
    /\ calls' = NoCalls
    /\ exception' = "-"
    /\ UNCHANGED <<file, committed>>

AllResponses == UNION {Responses(v) : v \in VideoIds}

Next ==
    \/ \E smtp_up, readable \in BOOLEAN : StartRun(smtp_up, readable)
    \/ GetRaises
    \/ \E response \in AllResponses, raises_at \in PrintRaises :
          Fetch(response, raises_at)
    \/ \E printed \in BOOLEAN : EndIteration(printed)
    \/ Finish
    \/ \E fault \in SendFaults, printed \in BOOLEAN : Send(fault, printed)
    \/ \E readable, printed \in BOOLEAN : UpdRead(readable, printed)
    \/ \E writable, printed \in BOOLEAN : UpdOpen(writable, printed)
    \/ \E written \in {FileOk(json_data)} \cup TornFiles, printed \in BOOLEAN :
          UpdDump(written, printed)
    \/ \E left \in {file} \cup TornFiles : Crash(left)
    \/ \E channel_id \in Channels, vid \in VideoIds : Publish(channel_id, vid)

Spec == Init /\ [][Next]_vars

\* ------------------------------------------------- one run that is not killed
\* The steps of the process itself.
RunStep ==
    \/ GetRaises
    \/ \E response \in AllResponses, raises_at \in PrintRaises :
          Fetch(response, raises_at)
    \/ \E printed \in BOOLEAN : EndIteration(printed)
    \/ Finish
    \/ \E fault \in SendFaults, printed \in BOOLEAN : Send(fault, printed)
    \/ \E readable, printed \in BOOLEAN : UpdRead(readable, printed)
    \/ \E writable, printed \in BOOLEAN : UpdOpen(writable, printed)
    \/ \E written \in {FileOk(json_data)} \cup TornFiles, printed \in BOOLEAN :
          UpdDump(written, printed)

\* The script is started once, on any registry.  Video ids are opaque and a run
\* only compares the fetched id with the stored one, so one latest upload per
\* channel is enough: the stored id is that id, another id, empty or absent.
LiveInit == Init /\ latest = [c \in Channels |-> "vid1"]

LiveNext ==
    \/ pc = "idle" /\ \E smtp_up, readable \in BOOLEAN : StartRun(smtp_up, readable)
    \/ RunStep

\* The interpreter runs the script statement by statement and every call to the
\* API, to the SMTP server and to the file system returns: a process that can
\* take a step takes it.  Nothing kills the process.
LiveSpec == LiveInit /\ [][LiveNext]_vars /\ WF_vars(RunStep)

\* ------------------------------------------- update_json_data on its own
\* One call update_json_data(channel_id, new_video_id) on any data.json: the
\* keys of the file are any subset of the channels, so the channel may be
\* absent from it.  The call is the only thing that runs; at "end" it has
\* returned, at "aborted" it has raised to its caller.
StoredRegistries == UNION {[keys -> Entries] : keys \in SUBSET Channels}

UpdateInit ==
    /\ \E data \in StoredRegistries :
          /\ file = FileOk(data)
          /\ committed = data
    /\ cur \in Channels
    /\ video_id \in VideoIds
    /\ pc = "upd_read"
    /\ latest = [c \in Channels |-> video_id]
    /\ gmail_server = "closed"
    /\ jsonData = NoData
    /\ idx = 0
    /\ stored_video_id = EmptyId
    /\ json_data = NoData
    /\ resp = NoResp
    /\ sent = NoSend
    /\ upd = "-"
    /\ failed = FALSE
    /\ run = "none"
    /\ calls = NoCalls
    /\ exception = "-"
    /\ prev = "none"

UpdateNext ==
    \/ \E readable, printed \in BOOLEAN : UpdRead(readable, printed)
    \/ \E writable, printed \in BOOLEAN : UpdOpen(writable, printed)
    \/ \E written \in {FileOk(json_data)} \cup TornFiles, printed \in BOOLEAN :
          UpdDump(written, printed)

UpdateSpec == UpdateInit /\ [][UpdateNext]_vars

\* --------------------------------------- json.load and json.dump on their own
\* The read and the write of update_json_data with nothing changed in between:
\* open(.., "r") and json.load of any data.json, then open(.., "w") and
\* json.dump of the dict it returned.  Both are inside the try of
\* update_json_data: an exception ends the round trip where it is raised.
\* An entry may hold other keys than the one the program uses.
Annotated(v) == [k \in {"latestVideoId", "note"} |-> v]

AnyRegistries ==
    UNION {[keys -> Entries \cup {Annotated(v) : v \in VideoIds}] :
              keys \in SUBSET Channels}

RoundTripInit ==
    /\ \E data \in AnyRegistries :
          /\ file = FileOk(data)
          /\ committed = data
    /\ pc = "rt_load"
    /\ cur = 0
    /\ video_id = None
    /\ latest = [c \in Channels |-> "vid1"]
    /\ gmail_server = "closed"
    /\ jsonData = NoData
    /\ idx = 0
    /\ stored_video_id = EmptyId
    /\ json_data = NoData
    /\ resp = NoResp
    /\ sent = NoSend
    /\ upd = "-"
    /\ failed = FALSE
    /\ run = "none"
    /\ calls = NoCalls
    /\ exception = "-"
    /\ prev = "none"

\* with open(json_file_name, "r") as file: json_data = json.load(file).
\* `readable` is FALSE when the file system refuses the read: nothing is
\* loaded and nothing is written.
Load(readable) ==
    /\ pc = "rt_load"
    /\ IF readable /\ Parseable(file)
       THEN /\ json_data' = json_load(file.data)
            /\ pc' = "rt_open"
            /\ UNCHANGED upd
       ELSE /\ upd' = IF readable THEN "parse_failed" ELSE "read_failed"
            /\ pc' = "rt_done"
            /\ UNCHANGED json_data
    /\ UNCHANGED <<file, latest, gmail_server, jsonData, idx, stored_video_id,
                   video_id, cur, resp, sent, failed, committed, run, calls,
                   exception, prev>>

\* open(json_file_name, "w") truncates data.json.  `writable` is FALSE when
\* the file system refuses to open it for writing: the file is left as it was.
Open(writable) ==
    /\ pc = "rt_open"
    /\ IF writable
       THEN /\ file' = FileEmpty
            /\ pc' = "rt_dump"
            /\ UNCHANGED upd
       ELSE /\ upd' = "open_failed"
            /\ pc' = "rt_done"
            /\ UNCHANGED file
    /\ UNCHANGED <<latest, gmail_server, jsonData, idx, stored_video_id,
                   video_id, json_data, cur, resp, sent, failed, committed,
                   run, calls, exception, prev>>

\* json.dump(json_data, file) and the close of the file.  `written` is the file
\* the write leaves: the text of the dict, or a torn file when json.dump
\* raises (the file system fails the write, or a string of the dict cannot be
\* encoded in utf-8, as a lone surrogate that json.load accepted).
Store(written) ==
    /\ pc = "rt_dump"
    /\ written \in {FileOk(json_data)} \cup TornFiles
    /\ file' = written
    /\ upd' = IF Parseable(written) THEN "ok" ELSE "write_failed"
    /\ pc' = "rt_done"
    /\ UNCHANGED <<latest, gmail_server, jsonData, idx, stored_video_id,
                   video_id, json_data, cur, resp, sent, failed, committed,
                   run, calls, exception, prev>>

RoundTripNext ==
    \/ \E readable \in BOOLEAN : Load(readable)
    \/ \E writable \in BOOLEAN : Open(writable)
    \/ \E written \in {FileOk(json_data)} \cup TornFiles : Store(written)

RoundTripSpec == RoundTripInit /\ [][RoundTripNext]_vars


\* ------------------------------------------------------------------ claims
UpdateStates == {"upd_read", "upd_open", "upd_dump"}

UpdateFailures ==
    {"read_failed", "parse_failed", "notfound", "assign_failed", "open_failed",
     "write_failed"}

\* C1: when the mail of a channel failed with a transport error (nothing was
\* delivered), the persisted id of that channel after its processing is the one
\* the run loaded.
C1_NoUpdateAfterFailedSend ==
    (pc = "end" /\ sent.error = "transport" /\ ~sent.delivered /\ Parseable(file))
        => GetLatestVideoId(json_load(file.data)[cur]) = GetLatestVideoId(jsonData[cur])

\* C2: after a fetch that failed with Unauthorized, with channels left in the
\* iteration, the run aborts: the only step is the end of the process, and no
\* later channel is fetched.
C2_UnauthorizedFetchAborts ==
    [][(pc = "end" /\ resp.kind = "unauthorized" /\ idx < NumChannels)
           => pc' \in {"aborted", "crashed"}]_vars

\* C3: after a non-fatal failure of an earlier channel of the run, a later
\* channel whose mail was due is still updated: its update is not refused
\* because the earlier failure left data.json unreadable.
C3_Isolation ==
    (failed /\ pc = "end" /\ sent # NoSend) => upd # "parse_failed"

\* C4 as stated: after a run that completed and persisted every update it
\* attempted, with no new upload since, the next run attempts no mail and
\* leaves data.json as it loaded it.
C4_IdempotentAfterPersistedRun ==
    (prev \in {"persisted", "clean"} /\ pc \in RunningStates)
        => /\ pc \notin {"send"} \cup UpdateStates
           /\ sent = NoSend
           /\ file = FileOk(jsonData)

\* C4 amended: the same, when the first run also fetched every channel
\* successfully.
C4_IdempotentAfterCleanRun ==
    (prev = "clean" /\ pc \in RunningStates)
        => /\ pc \notin {"send"} \cup UpdateStates
           /\ sent = NoSend
           /\ file = FileOk(jsonData)

C4_Witness ==
    /\ prev = "clean"
    /\ pc = "loop"
    /\ idx > NumChannels
    /\ run = "clean"

\* C5: for every successfully fetched item the loop goes to post_gmail iff
\* the fetched id differs from the stored one, an absent or empty stored id
\* always differing; the stored id of the snapshot is the one data.json holds.
C5_NotifyIffDiffers ==
    [][(pc = "loop" /\ resp'.kind = "ok")
           => LET entry == jsonData[cur']
                  differs == \/ entry = NoField
                             \/ entry["latestVideoId"] = EmptyId
                             \/ entry["latestVideoId"] # resp'.videoId
              IN /\ (pc' = "send") <=> differs
                 /\ Parseable(file) => json_load(file.data)[cur'] = entry]_vars

\* C6: every post_gmail call begins on a fresh session.
C6_FreshSessionPerSend == pc = "send" => gmail_server = "connected"

\* C7: after a crash data.json still holds every update this run completed for
\* a channel other than the one in hand.
C7_CrashKeepsEarlierUpdates ==
    pc = "crashed"
        => \A c \in Channels :
              (c # cur /\ committed[c] # jsonData[c])
                  => Parseable(file) /\ json_load(file.data)[c] = committed[c]

\* C8: at every instant data.json is a complete registry: the content before
\* the update in progress or the content after it.
C8_AtomicWrite == file = FileOk(committed)

\* C9: when the mail was sent and the update then failed, the run goes on and
\* the persisted id of the channel is still the old one.
C9_FailedUpdateKeepsOldId ==
    (pc = "end" /\ sent.error = "none" /\ sent.delivered /\ upd \in UpdateFailures)
        => /\ Parseable(file)
           /\ GetLatestVideoId(json_load(file.data)[cur]) = stored_video_id

\* C10: after a mail failed with AuthFailed the run aborts: data.json is not
\* written and the loop takes no other channel.
C10_AuthFailedAborts ==
    [][(pc \in RunningStates /\ sent.error = "auth")
           => (file' = file /\ pc' # "loop")]_vars

\* C11: when the fetched id differs from the stored one, the mail was sent and
\* the update succeeded, then at the end of the channel's processing (also when
\* the run ends there) exactly one post_gmail call was made for it in this run
\* and it delivered the mail, and data.json holds the fetched id for the channel.
C11_SuccessfulNotify ==
    (pc \in {"end", "aborted"} /\ resp.kind = "ok" /\ sent.error = "none"
        /\ upd = "ok")
        => /\ resp.videoId # stored_video_id
           /\ sent.delivered
           /\ calls.send[cur] = 1
           /\ Parseable(file)
           /\ GetLatestVideoId(json_load(file.data)[cur]) = resp.videoId
           /\ resp.videoId = latest[cur]

C11_Witness ==
    /\ pc = "end"
    /\ resp.kind = "ok"
    /\ sent.error = "none"
    /\ sent.delivered
    /\ upd = "ok"
    /\ stored_video_id \in VideoIds

\* The fetches that failed.
FetchErrors == FetchKinds \ {"ok"}

\* C12: after a fetch that failed the channel's processing is over (the loop
\* goes to the end of its body, or the run ends): no post_gmail call and no
\* update_json_data call is made for the channel and data.json (the channel's
\* entry and every other entry) is left as it was, in the fetch step and in the
\* step that ends the processing.
C12_FetchFailureUntouched ==
    [][/\ (pc = "loop" /\ resp'.kind \in FetchErrors)
           => /\ pc' \in {"end", "aborted"}
              /\ file' = file
              /\ gmail_server' = gmail_server
              /\ sent' = NoSend /\ upd' = "-"
              /\ calls'.send[cur'] = 0 /\ calls'.update[cur'] = 0
       /\ (pc = "end" /\ resp.kind \in FetchErrors)
           => /\ file' = file
              /\ pc' \in {"loop", "aborted", "crashed"}
              /\ calls'.send = calls.send /\ calls'.update = calls.update]_vars

C12_Witness ==
    /\ pc = "end"
    /\ resp.kind = "notfound"
    /\ jsonData[cur] = Entry("vid1")
    /\ latest[cur] = "vid2"
    /\ file = FileOk(jsonData)

\* C13: when the fetched id equals the stored one, the channel's processing
\* is over at once (the loop goes to the end of its body, or the run ends): no
\* post_gmail call, no update_json_data call, and data.json is left as it was,
\* in the fetch step and in the step that ends the processing.
C13_SkipIsNoOp ==
    [][/\ (pc = "loop" /\ resp'.kind = "ok" /\ resp'.videoId = stored_video_id')
           => /\ pc' \in {"end", "aborted"}
              /\ file' = file
              /\ gmail_server' = gmail_server
              /\ sent' = NoSend /\ upd' = "-"
              /\ calls'.send[cur'] = 0 /\ calls'.update[cur'] = 0
       /\ (pc = "end" /\ resp.kind = "ok" /\ resp.videoId = stored_video_id)
           => /\ file' = file
              /\ pc' \in {"loop", "aborted", "crashed"}
              /\ calls'.send = calls.send /\ calls'.update = calls.update]_vars

C13_Witness ==
    /\ pc = "end"
    /\ resp.kind = "ok"
    /\ resp.videoId = stored_video_id
    /\ jsonData[cur] = Entry(resp.videoId)
    /\ file = FileOk(jsonData)
    /\ idx = NumChannels

\* C14: a run that ended because data.json did not load (the file is missing
\* or unreadable, is not JSON, or holds an entry that is not an object) has
\* made no fetch, no post_gmail call and no update_json_data call.
C14_LoadFailureAbortsFirst ==
    (pc = "aborted" /\ exception \in {"load", "get"}) => calls = NoCalls

\* C15 as stated: update_json_data on a channel that data.json does not hold
\* leaves the file as it was and hands the caller an outcome other than the one
\* of a successful update.
C15_NotFoundDistinguishable ==
    upd = "notfound"
        => /\ file = FileOk(committed)
           /\ UpdateReturns(upd) # UpdateReturns("ok")

\* C15 amended: update_json_data on a channel that data.json does not hold
\* leaves the file as it was (nothing is written, no entry is created) and,
\* when it returns, returns to the caller what a successful update returns;
\* the outcome is only printed.
C15_NotFoundUnchanged ==
    upd = "notfound"
        => /\ pc \in {"end", "aborted"}
           /\ file = FileOk(committed)
           /\ ~HasChannel(json_load(file.data), cur)
           /\ json_data = json_load(file.data)
           /\ UpdateReturns(upd) = UpdateReturns("ok")

C15_Witness ==
    /\ upd = "notfound"
    /\ pc = "end"
    /\ DOMAIN json_load(file.data) = Channels \ {cur}

\* C16: json.load of data.json followed by the write of the unmodified dict
\* leaves a file that holds the mapping the original file held: the same keys,
\* the same entry for every key, and one member per key.
C16_RoundTrip ==
    pc = "rt_done"
        => /\ Parseable(file)
           /\ DOMAIN json_load(file.data) = DOMAIN committed
           /\ \A k \in DOMAIN committed : json_load(file.data)[k] = committed[k]
           /\ Len(file.data) = Cardinality(DOMAIN committed)

\* C17: an update changes the id of its channel only.  It works on what it
\* reads from data.json, which is the registry as last written (earlier updates
\* of the run included), not on the snapshot of the main block: in the copy it
\* changes, and in the file the call leaves once it wrote to it, every other
\* channel has the entry the file held before the update, and the keys are the
\* same.
C17_UpdateChangesOnlyItsEntry ==
    [][/\ (pc = "upd_read" /\ pc' = "upd_open")
           => /\ file = FileOk(committed)
              /\ DOMAIN json_data' = DOMAIN committed
              /\ \A c \in DOMAIN committed \ {cur} : json_data'[c] = committed[c]
              /\ GetLatestVideoId(json_data'[cur]) = video_id
       /\ (pc = "upd_dump" /\ pc' \in {"end", "aborted"})
           => /\ Parseable(file')
              /\ DOMAIN json_load(file'.data) = DOMAIN committed
              /\ \A c \in DOMAIN committed \ {cur} :
                    json_load(file'.data)[c] = committed[c]]_vars

\* C18: across all runs, every step that changes data.json and leaves it
\* readable leaves the keys it had when it was last readable, and for every
\* channel the id it then held (so, from the start, its initial id or one
\* written earlier) or the non-empty id that the fetch of this iteration
\* returned for that very channel.
C18_PersistedIdsAreFetched ==
    [][(file' # file /\ Parseable(file'))
           => LET stored == json_load(file'.data)
              IN /\ committed' = stored
                 /\ DOMAIN stored = DOMAIN committed
                 /\ \A c \in DOMAIN committed :
                       \/ stored[c] = committed[c]
                       \/ /\ c = cur
                          /\ resp.kind = "ok"
                          /\ resp.videoId \in VideoIds
                          /\ resp.videoId = latest[c]
                          /\ GetLatestVideoId(stored[c]) = resp.videoId]_vars

C18_Witness ==
    /\ pc = "end"
    /\ upd = "ok"
    /\ cur = NumChannels
    /\ jsonData[cur] = Entry("vid1")
    /\ json_load(file.data)[cur] = Entry("vid2")
    /\ json_load(file.data)[1] # jsonData[1]

\* The run loaded a registry of well-formed entries.
Loaded == jsonData # NoData /\ \A c \in Channels : IsObject(jsonData[c])

\* C19: a run that loaded a registry of well-formed entries, and whose calls
\* all return, ends; when it has ended every channel of the snapshot was
\* fetched exactly once, and at no time has a run made more than one fetch, one
\* post_gmail call or one update_json_data call for a channel.
C19_RunTerminatesOncePerSource ==
    /\ [](\A c \in Channels :
             calls.fetch[c] <= 1 /\ calls.send[c] <= 1 /\ calls.update[c] <= 1)
    /\ []((pc \in {"done", "aborted"} /\ Loaded)
             => \A c \in Channels : calls.fetch[c] = 1)
    /\ (pc = "loop" /\ Loaded) ~> (pc \in {"done", "aborted"})

====
